---- MODULE Spec2Model ----
(***************************************************************************)
(* Real-time chat / notification fan-out of skillshare-mvp.                *)
(*                                                                         *)
(* Server side: the socket.io connection handler ('join-user',             *)
(* 'send-message', 'typing-start', 'typing-stop', 'disconnect'), the       *)
(* POST /api/messages route and NotificationService.createNotification.    *)
(* Each handler that awaits a database call is split at the await: the     *)
(* first action runs the handler up to the call, the ...Ok / ...Err action *)
(* runs the continuation once the call has resolved or rejected, so calls  *)
(* in flight may complete in any order.                                    *)
(*                                                                         *)
(* Strings are sequences of UTF-16 code units, so that Array.prototype.sort *)
(* and join are computed as JavaScript computes them.                      *)
(***************************************************************************)
EXTENDS Integers, Sequences, FiniteSets, TLC

\* ------------------------------------------------------------------ bounds
MaxJoins == 3      \* room memberships held at one time, over all sockets
MaxOps == 1        \* dispatching handler invocations (chat, typing, notify)
MaxSends == 2      \* dispatches in the one-recipient scenario

\* ------------------------------------------------------- values and strings
Dash == 45         \* code unit of '-'

\* user ids "a", "ab", "b"
Users == {<<97>>, <<97, 98>>, <<98>>}

\* (sender, recipient) pairs of the chat messages sent: both orders of one
\* pair, and a user writing to itself
ChatPairs == {<<<<97>>, <<98>>>>, <<<<98>>, <<97>>>>, <<<<97>>, <<97>>>>}

\* JavaScript undefined (a field the payload does not carry)
Undefined == <<0>>

\* an event emitted with no argument: the handler's parameter is undefined
NoPayload == [undefined |-> TRUE]

\* socket ids, in the order in which the sockets connect
Conns == {1, 2, 3}

Contents == {<<104, 105>>}                 \* "hi"
TextType == <<116>>                        \* 'text'
MsgTypes == {Undefined, TextType}          \* messageData.type / req.body.type
\* notification type tag, abbreviated: 'match_accepted'
MatchAccepted == <<109, 97>>
NotifTypes == {MatchAccepted}
Titles == {<<84>>}                         \* "T"
Bodies == {<<66>>}                         \* "B"

Min(a, b) == IF a < b THEN a ELSE b

\* a < b for JavaScript strings: comparison by code units, a proper prefix first
LexLess(a, b) ==
  \E i \in 1..(Min(Len(a), Len(b)) + 1) :
    /\ \A j \in 1..(i - 1) : a[j] = b[j]
    /\ \/ i > Len(a) /\ i <= Len(b)
       \/ i <= Len(a) /\ i <= Len(b) /\ a[i] < b[i]

\* mutant: the pair is left in argument order
SortPair_Unsorted(a, b) == <<a, b>>

\* [a, b].sort() with the default comparator; sort moves undefined to the end
SortPair(a, b) ==
  IF a = Undefined THEN <<b, a>>
  ELSE IF b = Undefined THEN <<a, b>>
  ELSE IF LexLess(b, a) THEN <<b, a>> ELSE <<a, b>>

\* an element as join renders it: undefined becomes the empty string
JoinItem(x) == IF x = Undefined THEN <<>> ELSE x

\* pair.join('-')
JoinDash(pair) == JoinItem(pair[1]) \o <<Dash>> \o JoinItem(pair[2])

\* [sender, recipient].sort().join('-')
ThreadId(sender, recipient) == JoinDash(SortPair(sender, recipient))

\* thread ids a socket client may put in messageData.threadId: the server
\* takes the field as sent; a client either sorts the pair or does not
ClientThreadIds(sender, recipient) ==
  {ThreadId(sender, recipient), JoinDash(<<sender, recipient>>)}

\* ------------------------------------------------------------------- state
VARIABLES
  status,        \* socket -> "new" | "live" | "closed"
  rooms,         \* socket -> user ids u whose room user-<u> it is in, in
                 \* the order joined (socket.rooms is an insertion-ordered Set)
  pending,       \* database calls in flight: [kind, origin, doc]
  messages,      \* Message collection, in order of insertion
  notifications, \* Notification collection, in order of insertion
  inbox,         \* socket -> events the client of that socket has received
  lastResponse,  \* last HTTP response sent, with the route that sent it
  clock,         \* Date.now / ObjectId generator, one tick per dispatch
  budget,        \* dispatching handler invocations the run may make
  up,            \* the server process is running
  lastWrite,     \* history: the last request that wrote to notifications
                 \* [route, userId, id, before], before being the stored
                 \* notification, of any owner, that the id denoted
  bellList,      \* NotificationBell of one client: notifications
  bellUnread,    \* NotificationBell of one client: unreadCount
  typingUsers,   \* ChatPage of one client: senders shown as typing
  chatMessages,  \* ChatPage of one client: messages
  reviews,       \* Review collection, in order of insertion
  rating,        \* user -> stored User.rating, as [num, den]
  files,         \* names of the files in the uploads directory
  avatar,        \* user -> stored User.avatar: the URL of a file, or NoFile
  verificationDocs,  \* user -> stored User.verificationDocs: URLs, in order
  skills,        \* user -> [offered, desired] of the stored profile: the
                 \* skill of each offeredSkills entry, the desiredSkills
  matched        \* result of the last findMatches call

ghost == <<lastWrite>>
chat == <<typingUsers, chatMessages>>
client == <<bellList, bellUnread, chat>>
profile == <<reviews, rating, files, avatar, verificationDocs, skills, matched>>

vars == <<status, rooms, pending, messages, notifications, inbox,
          lastResponse, clock, budget, up, ghost, client, profile>>

\* no notification has the id asked for
NoTarget == [id |-> 0]

\* the schema default of User.rating; a rating is kept as a fraction
Zero == [num |-> 0, den |-> 1]

\* the schema default '' of User.avatar
NoFile == <<>>

\* profiles that offer and desire nothing
NoSkills == [u \in Users |-> [offered |-> <<>>, desired |-> <<>>]]

\* findMatches was not called yet
NoCall == [called |-> FALSE]

\* the process has started, no request was made, the bell has just mounted
InitProcess ==
  /\ up = TRUE
  /\ lastWrite = [route |-> "none"]
  /\ bellList = <<>>
  /\ bellUnread = 0
  /\ typingUsers = {}
  /\ chatMessages = <<>>
  /\ reviews = <<>>
  /\ rating = [u \in Users |-> Zero]
  /\ files = {}
  /\ avatar = [u \in Users |-> NoFile]
  /\ verificationDocs = [u \in Users |-> <<>>]
  /\ matched = NoCall

Init ==
  /\ status = [c \in Conns |-> "new"]
  /\ rooms = [c \in Conns |-> <<>>]
  /\ pending = {}
  /\ messages = <<>>
  /\ notifications = <<>>
  /\ inbox = [c \in Conns |-> <<>>]
  /\ lastResponse = [status |-> 0, route |-> "none"]
  /\ clock = 0
  /\ budget = MaxOps
  /\ InitProcess
  /\ skills = NoSkills

\* socket c is a member of room user-<u>
InRoom(c, u) == \E i \in 1..Len(rooms[c]) : rooms[c][i] = u

\* --------------------------------------------------------- emit primitives
\* socket.emit(ev): to that one socket, dropped once it has disconnected
ToSocket(inb, c, ev) ==
  [d \in Conns |-> IF d = c /\ status[c] = "live" THEN Append(inb[d], ev)
                   ELSE inb[d]]

\* mutant: the event is put in front of what the socket was sent before
ToRoomExcept_Prepend(inb, u, c0, ev) ==
  [d \in Conns |-> IF InRoom(d, u) /\ d # c0 THEN <<ev>> \o inb[d]
                   ELSE inb[d]]

\* socket.to('user-<u>').emit(ev): every socket in the room but the sender
ToRoomExcept(inb, u, c0, ev) ==
  [d \in Conns |-> IF InRoom(d, u) /\ d # c0 THEN Append(inb[d], ev)
                   ELSE inb[d]]

\* io.to('user-<u>').emit(ev): every socket in the room
ToRoom(inb, u, ev) ==
  [d \in Conns |-> IF InRoom(d, u) THEN Append(inb[d], ev) ELSE inb[d]]

\* io.emit(ev): every connected socket
ToAll(inb, ev) ==
  [d \in Conns |-> IF status[d] = "live" THEN Append(inb[d], ev) ELSE inb[d]]

\* ------------------------------------------------------ connection handling
\* number of (socket, room) memberships the adapter holds
RoomCount == Cardinality({x \in Conns \X Users : InRoom(x[1], x[2])})

\* io.on('connection'): a fresh socket id, member of no user room
Connect(c) ==
  /\ up
  /\ status[c] = "new"
  /\ \A d \in Conns : d < c => status[d] # "new"
  /\ status' = [status EXCEPT ![c] = "live"]
  /\ UNCHANGED <<rooms, pending, messages, notifications, inbox,
                 lastResponse, clock, budget,
                 up, ghost, client, profile>>

\* socket.on('join-user'): socket.join('user-<userId>'); joining a room the
\* socket is in already changes nothing
JoinUser(c, u) ==
  /\ up
  /\ status[c] = "live"
  /\ ~InRoom(c, u)
  /\ RoomCount < MaxJoins
  /\ rooms' = [rooms EXCEPT ![c] = Append(@, u)]
  /\ UNCHANGED <<status, pending, messages, notifications, inbox,
                 lastResponse, clock, budget,
                 up, ghost, client, profile>>

\* mutant: the socket stays in its rooms after the transport has closed
Disconnect_Stale(c) ==
  /\ up
  /\ status[c] = "live"
  /\ status' = [status EXCEPT ![c] = "closed"]
  /\ UNCHANGED <<rooms, pending, messages, notifications, inbox,
                 lastResponse, clock, budget,
                 up, ghost, client, profile>>

\* socket.on('disconnect'): the handler only logs; socket.io has removed the
\* socket from every room and from the namespace
Disconnect(c) ==
  /\ up
  /\ status[c] = "live"
  /\ status' = [status EXCEPT ![c] = "closed"]
  /\ rooms' = [rooms EXCEPT ![c] = <<>>]
  /\ UNCHANGED <<pending, messages, notifications, inbox, lastResponse, clock, budget,
                 up, ghost, client, profile>>

\* --------------------------------------------------------------- payloads
\* the 'new-message' payload built by the socket handler
SocketNewMessage(m) ==
  [name |-> "new-message", id |-> m.id, threadId |-> m.threadId,
   sender |-> m.sender, content |-> m.content, type |-> m.type,
   createdAt |-> m.createdAt]

\* the 'new-message' payload built by POST /api/messages
HttpNewMessage(m) ==
  [name |-> "new-message", id |-> m.id, threadId |-> m.threadId,
   sender |-> m.sender, recipient |-> m.recipient, content |-> m.content,
   type |-> m.type, createdAt |-> m.createdAt]

MessageSent(m) == [name |-> "message-sent", id |-> m.id, status |-> "sent"]

MessageError == [name |-> "message-error", error |-> "Failed to send message"]

UserTyping(sender, flag) ==
  [name |-> "user-typing", sender |-> sender, isTyping |-> flag]

NewNotification(n) ==
  [name |-> "new-notification", id |-> n.id, type |-> n.type,
   title |-> n.title, message |-> n.message, data |-> n.data,
   createdAt |-> n.createdAt]

\* ------------------------------------------------------ socket 'send-message'
\* the document handed to Message.create by the socket handler
SendMessageDoc(md, now) ==
  [id |-> now, threadId |-> md.threadId, sender |-> md.sender,
   recipient |-> md.recipient, content |-> md.content,
   type |-> IF md.type = Undefined THEN TextType ELSE md.type,
   status |-> "sent", createdAt |-> now]

\* handler up to `await Message.create(...)`
SendMessage(c, md) ==
  /\ up
  /\ status[c] = "live"
  /\ clock < budget
  /\ clock' = clock + 1
  /\ IF md = NoPayload
     THEN \* messageData.threadId throws inside the try: the catch answers
          /\ inbox' = ToSocket(inbox, c, MessageError)
          /\ pending' = pending
     ELSE /\ pending' = pending \cup
               {[kind |-> "send", origin |-> c,
                 doc |-> SendMessageDoc(md, clock + 1)]}
          /\ inbox' = inbox
  /\ UNCHANGED <<status, rooms, messages, notifications, lastResponse, budget,
                 up, ghost, client, profile>>

\* mutant: the confirmation to the sender is left out
SendMessageOk_NoAck(p) ==
  /\ up
  /\ p \in pending /\ p.kind = "send"
  /\ pending' = pending \ {p}
  /\ messages' = Append(messages, p.doc)
  /\ inbox' = ToRoomExcept(inbox, p.doc.recipient, p.origin,
                           SocketNewMessage(p.doc))
  /\ UNCHANGED <<status, rooms, notifications, lastResponse, clock, budget,
                 up, ghost, client, profile>>

\* Message.create resolved: emit to the recipient's room, confirm to sender
SendMessageOk(p) ==
  /\ up
  /\ p \in pending /\ p.kind = "send"
  /\ pending' = pending \ {p}
  /\ messages' = Append(messages, p.doc)
  /\ inbox' = ToSocket(ToRoomExcept(inbox, p.doc.recipient, p.origin,
                                    SocketNewMessage(p.doc)),
                       p.origin, MessageSent(p.doc))
  /\ UNCHANGED <<status, rooms, notifications, lastResponse, clock, budget,
                 up, ghost, client, profile>>

\* mutant: the message is pushed although it was not saved
SendMessageErr_Forward(p) ==
  /\ up
  /\ p \in pending /\ p.kind = "send"
  /\ pending' = pending \ {p}
  /\ inbox' = ToSocket(ToRoomExcept(inbox, p.doc.recipient, p.origin,
                                    SocketNewMessage(p.doc)),
                       p.origin, MessageError)
  /\ UNCHANGED <<status, rooms, messages, notifications, lastResponse, clock, budget,
                 up, ghost, client, profile>>

\* Message.create rejected: the catch block
SendMessageErr(p) ==
  /\ up
  /\ p \in pending /\ p.kind = "send"
  /\ pending' = pending \ {p}
  /\ inbox' = ToSocket(inbox, p.origin, MessageError)
  /\ UNCHANGED <<status, rooms, messages, notifications, lastResponse, clock, budget,
                 up, ghost, client, profile>>

\* ------------------------------------------------------- POST /api/messages
\* the document handed to Message.create by the route
PostMessageDoc(sender, body, now) ==
  [id |-> now, threadId |-> ThreadId(sender, body.recipient),
   sender |-> sender, recipient |-> body.recipient, content |-> body.content,
   type |-> IF body.type = Undefined THEN TextType ELSE body.type,
   status |-> "sent", createdAt |-> now]

\* route up to `await Message.create(...)`; sender is req.userId
PostMessage(sender, body) ==
  /\ up
  /\ clock < budget
  /\ clock' = clock + 1
  /\ pending' = pending \cup
       {[kind |-> "post", origin |-> 0,
         doc |-> PostMessageDoc(sender, body, clock + 1)]}
  /\ UNCHANGED <<status, rooms, messages, notifications, inbox, lastResponse, budget,
                 up, ghost, client, profile>>

\* Message.create resolved: io.emit('new-message'), then the 200 response
PostMessageOk(p) ==
  /\ up
  /\ p \in pending /\ p.kind = "post"
  /\ pending' = pending \ {p}
  /\ messages' = Append(messages, p.doc)
  /\ inbox' = ToAll(inbox, HttpNewMessage(p.doc))
  /\ lastResponse' = [status |-> 200, route |-> "postMessage", data |-> p.doc]
  /\ UNCHANGED <<status, rooms, notifications, clock, budget,
                 up, ghost, client, profile>>

\* Message.create rejected: the catch block answers 500
PostMessageErr(p) ==
  /\ up
  /\ p \in pending /\ p.kind = "post"
  /\ pending' = pending \ {p}
  /\ lastResponse' = [status |-> 500, route |-> "postMessage"]
  /\ UNCHANGED <<status, rooms, messages, notifications, inbox, clock, budget,
                 up, ghost, client, profile>>

\* ------------------------------------------------ typing-start / typing-stop
\* an exception nothing catches ends the Node process: every connection is
\* dropped and no continuation of a pending database call runs
ProcessExit ==
  /\ up' = FALSE
  /\ status' = [d \in Conns |->
                  IF status[d] = "live" THEN "closed" ELSE status[d]]
  /\ rooms' = [d \in Conns |-> <<>>]
  /\ pending' = {}
  /\ inbox' = inbox

\* mutant: the event goes to the whole room, the sending socket included
TypingStart_Echo(c, data) ==
  /\ up
  /\ status[c] = "live"
  /\ clock < budget
  /\ clock' = clock + 1
  /\ inbox' = ToRoom(inbox, data.recipient, UserTyping(data.sender, TRUE))
  /\ UNCHANGED <<status, rooms, pending, up>>
  /\ UNCHANGED <<messages, notifications, lastResponse, budget, ghost,
                 client, profile>>

TypingStart(c, data) ==
  /\ up
  /\ status[c] = "live"
  /\ clock < budget
  /\ clock' = clock + 1
  /\ IF data = NoPayload
     THEN \* data.recipient throws, and no try encloses the handler
          ProcessExit
     ELSE /\ inbox' = ToRoomExcept(inbox, data.recipient, c,
                                   UserTyping(data.sender, TRUE))
          /\ UNCHANGED <<status, rooms, pending, up>>
  /\ UNCHANGED <<messages, notifications, lastResponse, budget, ghost,
                 client, profile>>

TypingStop(c, data) ==
  /\ up
  /\ status[c] = "live"
  /\ clock < budget
  /\ clock' = clock + 1
  /\ IF data = NoPayload
     THEN \* data.recipient throws, and no try encloses the handler
          ProcessExit
     ELSE /\ inbox' = ToRoomExcept(inbox, data.recipient, c,
                                   UserTyping(data.sender, FALSE))
          /\ UNCHANGED <<status, rooms, pending, up>>
  /\ UNCHANGED <<messages, notifications, lastResponse, budget, ghost,
                 client, profile>>

\* ----------------------------------- NotificationService.createNotification
\* up to `await Notification.create(...)`; read takes the schema default
CreateNotification(userId, type, title, message) ==
  /\ up
  /\ clock < budget
  /\ clock' = clock + 1
  /\ pending' = pending \cup
       {[kind |-> "notify", origin |-> 0,
         doc |-> [id |-> clock + 1, userId |-> userId, type |-> type,
                  title |-> title, message |-> message,
                  data |-> [type |-> type], read |-> FALSE,
                  createdAt |-> clock + 1]]}
  /\ UNCHANGED <<status, rooms, messages, notifications, inbox, lastResponse, budget,
                 up, ghost, client, profile>>

\* mutant: the push goes to every connected socket
CreateNotificationOk_Broadcast(p) ==
  /\ up
  /\ p \in pending /\ p.kind = "notify"
  /\ pending' = pending \ {p}
  /\ notifications' = Append(notifications, p.doc)
  /\ inbox' = ToAll(inbox, NewNotification(p.doc))
  /\ UNCHANGED <<status, rooms, messages, lastResponse, clock, budget,
                 up, ghost, client, profile>>

\* Notification.create resolved: io.to('user-<userId>').emit
CreateNotificationOk(p) ==
  /\ up
  /\ p \in pending /\ p.kind = "notify"
  /\ pending' = pending \ {p}
  /\ notifications' = Append(notifications, p.doc)
  /\ inbox' = ToRoom(inbox, p.doc.userId, NewNotification(p.doc))
  /\ UNCHANGED <<status, rooms, messages, lastResponse, clock, budget,
                 up, ghost, client, profile>>

\* Notification.create rejected: logged and rethrown to the caller
CreateNotificationErr(p) ==
  /\ up
  /\ p \in pending /\ p.kind = "notify"
  /\ pending' = pending \ {p}
  /\ UNCHANGED <<status, rooms, messages, notifications, inbox,
                 lastResponse, clock, budget,
                 up, ghost, client, profile>>

\* ------------------------------------------------------------ specification
\* payloads of 'send-message'
MessageData ==
  UNION {[threadId : ClientThreadIds(pr[1], pr[2]), sender : {pr[1]},
          recipient : {pr[2]}, content : Contents, type : MsgTypes] :
         pr \in ChatPairs}

\* bodies of POST /api/messages
PostBodies(sender) ==
  [recipient : {pr[2] : pr \in {q \in ChatPairs : q[1] = sender}},
   content : Contents, type : MsgTypes]

\* payloads of 'typing-start' / 'typing-stop'; ChatPage sends no sender
TypingData == [recipient : Users, sender : {Undefined}]

Next ==
  \/ \E c \in {1, 2} : Connect(c)
  \/ \E c \in Conns, u \in Users : JoinUser(c, u)
  \/ \E c \in Conns : Disconnect(c)
  \/ \E c \in Conns, md \in MessageData : SendMessage(c, md)
  \/ \E p \in pending : SendMessageOk(p)
  \/ \E p \in pending : SendMessageErr(p)
  \/ \E u \in Users : \E body \in PostBodies(u) : PostMessage(u, body)
  \/ \E p \in pending : PostMessageOk(p)
  \/ \E p \in pending : PostMessageErr(p)
  \/ \E c \in Conns, data \in TypingData : TypingStart(c, data)
  \/ \E c \in Conns, data \in TypingData : TypingStop(c, data)
  \/ \E u \in Users, t \in NotifTypes, ti \in Titles, b \in Bodies :
       CreateNotification(u, t, ti, b)
  \/ \E p \in pending : CreateNotificationOk(p)
  \/ \E p \in pending : CreateNotificationErr(p)

Spec == Init /\ [][Next]_vars

\* --------------------------------------------------- one-recipient scenario
\* two sockets; every dispatch is addressed to user "b" by user "a", several
\* of them in flight at once
OneWayData ==
  [threadId : {ThreadId(<<97>>, <<98>>)}, sender : {<<97>>},
   recipient : {<<98>>}, content : Contents, type : {Undefined}]

OneWayBodies == [recipient : {<<98>>}, content : Contents, type : {TextType}]

OneWayTyping == [recipient : {<<98>>}, sender : {Undefined}]

InitOneWay ==
  /\ status = [c \in Conns |-> "new"]
  /\ rooms = [c \in Conns |-> <<>>]
  /\ pending = {}
  /\ messages = <<>>
  /\ notifications = <<>>
  /\ inbox = [c \in Conns |-> <<>>]
  /\ lastResponse = [status |-> 0, route |-> "none"]
  /\ clock = 0
  /\ budget = MaxSends
  /\ InitProcess
  /\ skills = NoSkills

NextOneWay ==
  \/ \E c \in {1, 2} : Connect(c)
  \/ \E c \in Conns, u \in {<<97>>, <<98>>} : JoinUser(c, u)
  \/ \E c \in Conns : Disconnect(c)
  \/ \E c \in Conns, md \in OneWayData : SendMessage(c, md)
  \/ \E p \in pending : SendMessageOk(p)
  \/ \E p \in pending : SendMessageErr(p)
  \/ \E body \in OneWayBodies : PostMessage(<<97>>, body)
  \/ \E p \in pending : PostMessageOk(p)
  \/ \E p \in pending : PostMessageErr(p)
  \/ \E c \in Conns, data \in OneWayTyping : TypingStart(c, data)
  \/ \E c \in Conns, data \in OneWayTyping : TypingStop(c, data)
  \/ \E t \in NotifTypes, ti \in Titles, b \in Bodies :
       CreateNotification(<<98>>, t, ti, b)
  \/ \E p \in pending : CreateNotificationOk(p)
  \/ \E p \in pending : CreateNotificationErr(p)

SpecOneWay == InitOneWay /\ [][NextOneWay]_vars

\* --------------------------------------------------- notification scenario
\* three sockets; notifications only, for any user
NextNotify ==
  \/ \E c \in Conns : Connect(c)
  \/ \E c \in Conns, u \in Users : JoinUser(c, u)
  \/ \E c \in Conns : Disconnect(c)
  \/ \E u \in Users, t \in NotifTypes, ti \in Titles, b \in Bodies :
       CreateNotification(u, t, ti, b)
  \/ \E p \in pending : CreateNotificationOk(p)
  \/ \E p \in pending : CreateNotificationErr(p)

SpecNotify == Init /\ [][NextNotify]_vars

\* ------------------------------------------------ GET /api/messages/:partnerId
MaxReads == 1      \* GET requests between their two database calls

\* the $or filter of the route: the messages exchanged by the two users
Between(m, userId, partnerId) ==
  \/ m.sender = userId /\ m.recipient = partnerId
  \/ m.sender = partnerId /\ m.recipient = userId

\* .sort({ createdAt: 1 })
RECURSIVE SortByCreatedAt(_)
SortByCreatedAt(s) ==
  IF s = <<>> THEN <<>>
  ELSE LET h == Head(s)
           rest == SortByCreatedAt(Tail(s))
       IN SelectSeq(rest, LAMBDA x : x.createdAt < h.createdAt)
            \o <<h>>
            \o SelectSeq(rest, LAMBDA x : ~(x.createdAt < h.createdAt))

\* Message.find({ $or: [...] }).sort({ createdAt: 1 })
FindConversation(coll, userId, partnerId) ==
  SortByCreatedAt(SelectSeq(coll, LAMBDA m : Between(m, userId, partnerId)))

\* mutant: every message of the conversation is marked, the caller's too
MarkDelivered_Both(coll, userId, partnerId) ==
  [i \in DOMAIN coll |->
     IF Between(coll[i], userId, partnerId) /\ coll[i].status = "sent"
     THEN [coll[i] EXCEPT !.status = "read"]
     ELSE coll[i]]

\* Message.updateMany({ sender: partnerId, recipient: userId, status: 'sent' },
\*                    { status: 'read' })
MarkDelivered(coll, userId, partnerId) ==
  [i \in DOMAIN coll |->
     IF /\ coll[i].sender = partnerId
        /\ coll[i].recipient = userId
        /\ coll[i].status = "sent"
     THEN [coll[i] EXCEPT !.status = "read"]
     ELSE coll[i]]

\* the GET requests that have made their first database call
Reads == {q \in pending : q.kind \in {"conv", "list"}}

\* the request of userId arrives and the find runs; the route goes on to
\* its updateMany
GetConversation(userId, partnerId) ==
  /\ up
  /\ Cardinality(Reads) < MaxReads
  /\ pending' = pending \cup
       {[kind |-> "conv", origin |-> 0, user |-> userId, partner |-> partnerId,
         found |-> FindConversation(messages, userId, partnerId)]}
  /\ UNCHANGED <<status, rooms, messages, notifications, inbox,
                 lastResponse, clock, budget,
                 up, ghost, client, profile>>

\* the find rejects: the catch answers 500
GetConversationErr(userId, partnerId) ==
  /\ up
  /\ lastResponse' = [status |-> 500, route |-> "getConversation"]
  /\ UNCHANGED <<status, rooms, pending, messages, notifications, inbox,
                 clock, budget,
                 up, ghost, client, profile>>

\* mutant: the route answers without the messages it found
ConversationMarked_Empty(p) ==
  /\ up
  /\ p \in pending /\ p.kind = "conv"
  /\ pending' = pending \ {p}
  /\ messages' = MarkDelivered(messages, p.user, p.partner)
  /\ lastResponse' = [status |-> 200, route |-> "getConversation", data |-> <<>>]
  /\ UNCHANGED <<status, rooms, notifications, inbox, clock, budget,
                 up, ghost, client, profile>>

\* the updateMany runs and the route answers with the messages found before
ConversationMarked(p) ==
  /\ up
  /\ p \in pending /\ p.kind = "conv"
  /\ pending' = pending \ {p}
  /\ messages' = MarkDelivered(messages, p.user, p.partner)
  /\ lastResponse' = [status |-> 200, route |-> "getConversation", data |-> p.found]
  /\ UNCHANGED <<status, rooms, notifications, inbox, clock, budget,
                 up, ghost, client, profile>>

\* the updateMany rejects: the catch answers 500
ConversationErr(p) ==
  /\ up
  /\ p \in pending /\ p.kind = "conv"
  /\ pending' = pending \ {p}
  /\ lastResponse' = [status |-> 500, route |-> "getConversation"]
  /\ UNCHANGED <<status, rooms, messages, notifications, inbox, clock, budget,
                 up, ghost, client, profile>>

\* ------------------------------------------------------ GET /api/notifications
DefaultLimit == 50     \* const { limit = 50, offset = 0 } = req.query
DefaultOffset == 0

\* query parameters of the requests made
Limits == {1, DefaultLimit}
Offsets == {DefaultOffset, 1}

\* .sort({ createdAt: -1 })
RECURSIVE SortNewestFirst(_)
SortNewestFirst(s) ==
  IF s = <<>> THEN <<>>
  ELSE LET h == Head(s)
           rest == SortNewestFirst(Tail(s))
       IN SelectSeq(rest, LAMBDA x : x.createdAt > h.createdAt)
            \o <<h>>
            \o SelectSeq(rest, LAMBDA x : ~(x.createdAt > h.createdAt))

\* Notification.find({ userId }).sort({ createdAt: -1 }).limit(limit)
\*   .skip(offset): the database skips first, then limits
FindNotifications(coll, userId, limit, offset) ==
  LET own == SortNewestFirst(SelectSeq(coll, LAMBDA n : n.userId = userId))
  IN SubSeq(own, offset + 1, Min(Len(own), offset + limit))

\* mutant: every notification of the user is counted, read or not
CountUnread_All(coll, userId, page) ==
  Len(SelectSeq(coll, LAMBDA n : n.userId = userId))

\* Notification.countDocuments({ userId, read: false }); page is what the
\* find returned, which the count does not look at
CountUnread(coll, userId, page) ==
  Len(SelectSeq(coll, LAMBDA n : n.userId = userId /\ ~n.read))

\* the request of userId arrives and the find runs; the route goes on to
\* its countDocuments
GetNotifications(userId, limit, offset) ==
  /\ up
  /\ Cardinality(Reads) < MaxReads
  /\ pending' = pending \cup
       {[kind |-> "list", origin |-> 0, user |-> userId,
         limit |-> limit, offset |-> offset,
         found |-> FindNotifications(notifications, userId, limit, offset)]}
  /\ UNCHANGED <<status, rooms, messages, notifications, inbox,
                 lastResponse, clock, budget,
                 up, ghost, client, profile>>

\* the find rejects: the catch answers 500
GetNotificationsErr(userId) ==
  /\ up
  /\ lastResponse' = [status |-> 500, route |-> "getNotifications"]
  /\ UNCHANGED <<status, rooms, pending, messages, notifications, inbox,
                 clock, budget,
                 up, ghost, client, profile>>

\* the countDocuments runs and the route answers
NotificationsCounted(p) ==
  /\ up
  /\ p \in pending /\ p.kind = "list"
  /\ pending' = pending \ {p}
  /\ lastResponse' =
       [status |-> 200, route |-> "getNotifications",
        data |-> [notifications |-> p.found,
                  unreadCount |-> CountUnread(notifications, p.user, p.found)]]
  /\ UNCHANGED <<status, rooms, messages, notifications, inbox, clock, budget,
                 up, ghost, client, profile>>

\* the countDocuments rejects: the catch answers 500
NotificationsCountErr(p) ==
  /\ up
  /\ p \in pending /\ p.kind = "list"
  /\ pending' = pending \ {p}
  /\ lastResponse' = [status |-> 500, route |-> "getNotifications"]
  /\ UNCHANGED <<status, rooms, messages, notifications, inbox, clock, budget,
                 up, ghost, client, profile>>

\* -------------------------------------- PUT /api/notifications/:id/read etc.
\* the stored notification with that id, whoever owns it
Denoted(coll, id) ==
  IF \E i \in DOMAIN coll : coll[i].id = id
  THEN coll[CHOOSE i \in DOMAIN coll : coll[i].id = id]
  ELSE NoTarget

\* mutant: the owner is not part of the filter
FindOwned_AnyOwner(coll, id, userId) ==
  {i \in DOMAIN coll : coll[i].id = id}

\* the filter { _id: notificationId, userId }
FindOwned(coll, id, userId) ==
  {i \in DOMAIN coll : coll[i].id = id /\ coll[i].userId = userId}

\* mutant: the flag is flipped
SetRead_Toggle(n) == [n EXCEPT !.read = ~n.read]

\* the update { read: true }
SetRead(n) == [n EXCEPT !.read = TRUE]

\* mutant: every notification of the user is flipped
ReadAll_Flip(coll, userId) ==
  [i \in DOMAIN coll |->
     IF coll[i].userId = userId THEN SetRead_Toggle(coll[i]) ELSE coll[i]]

\* mutant: the newest notification of the user is left as it is
ReadAll_ButNewest(coll, userId) ==
  [i \in DOMAIN coll |->
     IF /\ coll[i].userId = userId
        /\ \E k \in DOMAIN coll : /\ coll[k].userId = userId
                                  /\ coll[k].createdAt > coll[i].createdAt
     THEN SetRead(coll[i])
     ELSE coll[i]]

\* Notification.updateMany({ userId, read: false }, { read: true })
ReadAll(coll, userId) ==
  [i \in DOMAIN coll |->
     IF coll[i].userId = userId /\ ~coll[i].read
     THEN SetRead(coll[i])
     ELSE coll[i]]

\* the sequence without its i-th element
Without(coll, i) == SubSeq(coll, 1, i - 1) \o SubSeq(coll, i + 1, Len(coll))

\* findOneAndUpdate runs and the route answers: the updated document
\* ({ new: true }), or 404 when the filter matched nothing
MarkRead(userId, id) ==
  /\ up
  /\ lastWrite' = [route |-> "markRead", userId |-> userId, id |-> id,
                   before |-> Denoted(notifications, id)]
  /\ LET hit == FindOwned(notifications, id, userId)
         i == CHOOSE i \in hit : TRUE
     IN IF hit = {}
        THEN /\ notifications' = notifications
             /\ lastResponse' =
                  [status |-> 404, route |-> "markRead"]
        ELSE /\ notifications' =
                  [notifications EXCEPT ![i] = SetRead(notifications[i])]
             /\ lastResponse' =
                  [status |-> 200, route |-> "markRead",
                   data |-> SetRead(notifications[i])]
  /\ UNCHANGED <<status, rooms, pending, messages, inbox, clock, budget,
                 up, client, profile>>

\* findOneAndUpdate rejects: the catch answers 500
MarkReadErr(userId, id) ==
  /\ up
  /\ lastResponse' = [status |-> 500, route |-> "markRead"]
  /\ UNCHANGED <<status, rooms, pending, messages, notifications, inbox,
                 clock, budget, up, ghost, client, profile>>

\* updateMany runs and the route answers
MarkAllRead(userId) ==
  /\ up
  /\ lastWrite' = [route |-> "markAllRead", userId |-> userId]
  /\ notifications' = ReadAll(notifications, userId)
  /\ lastResponse' = [status |-> 200, route |-> "markAllRead"]
  /\ UNCHANGED <<status, rooms, pending, messages, inbox, clock, budget,
                 up, client, profile>>

\* updateMany rejects: the catch answers 500
MarkAllReadErr(userId) ==
  /\ up
  /\ lastResponse' = [status |-> 500, route |-> "markAllRead"]
  /\ UNCHANGED <<status, rooms, pending, messages, notifications, inbox,
                 clock, budget, up, ghost, client, profile>>

\* findOneAndDelete runs and the route answers, 404 when the filter
\* matched nothing
DeleteNotification(userId, id) ==
  /\ up
  /\ lastWrite' = [route |-> "deleteNotification", userId |-> userId, id |-> id,
                   before |-> Denoted(notifications, id)]
  /\ LET hit == FindOwned(notifications, id, userId)
         i == CHOOSE i \in hit : TRUE
     IN IF hit = {}
        THEN /\ notifications' = notifications
             /\ lastResponse' =
                  [status |-> 404, route |-> "deleteNotification"]
        ELSE /\ notifications' = Without(notifications, i)
             /\ lastResponse' =
                  [status |-> 200, route |-> "deleteNotification"]
  /\ UNCHANGED <<status, rooms, pending, messages, inbox, clock, budget,
                 up, client, profile>>

\* findOneAndDelete rejects: the catch answers 500
DeleteNotificationErr(userId, id) ==
  /\ up
  /\ lastResponse' = [status |-> 500, route |-> "deleteNotification"]
  /\ UNCHANGED <<status, rooms, pending, messages, notifications, inbox,
                 clock, budget, up, ghost, client, profile>>

\* ------------------------------------------------- notification store scenario
\* no socket; users "a" and "b" are notified and work on the stored
\* notifications over REST, with ids that may belong to the other user;
\* "b" lists its notifications
Owners == {<<97>>, <<98>>}

NextInbox ==
  \/ \E u \in Owners, t \in NotifTypes, ti \in Titles, b \in Bodies :
       CreateNotification(u, t, ti, b)
  \/ \E p \in pending : CreateNotificationOk(p)
  \/ \E p \in pending : CreateNotificationErr(p)
  \/ \E u \in Owners, id \in 1..budget : MarkRead(u, id)
  \/ \E u \in Owners, id \in 1..budget : MarkReadErr(u, id)
  \/ \E u \in Owners : MarkAllRead(u)
  \/ \E u \in Owners : MarkAllReadErr(u)
  \/ \E u \in Owners, id \in 1..budget : DeleteNotification(u, id)
  \/ \E u \in Owners, id \in 1..budget : DeleteNotificationErr(u, id)
  \/ \E l \in Limits, o \in Offsets : GetNotifications(<<98>>, l, o)
  \/ GetNotificationsErr(<<98>>)
  \/ \E p \in pending : NotificationsCounted(p)
  \/ \E p \in pending : NotificationsCountErr(p)

SpecInbox == Init /\ [][NextInbox]_vars

\* ------------------------------------------------------- offline scenario
\* one socket, which may or may not be the recipient's; users "a" and "b"
\* write to each other, "b" is notified, and both read back over REST
PairData ==
  UNION {[threadId : {ThreadId(pr[1], pr[2])}, sender : {pr[1]},
          recipient : {pr[2]}, content : Contents, type : {TextType}] :
         pr \in {<<<<97>>, <<98>>>>, <<<<98>>, <<97>>>>}}

\* (caller, partner) of the GET /api/messages/:partnerId requests
PairQueries == {<<<<97>>, <<98>>>>, <<<<98>>, <<97>>>>}

NextOffline ==
  \/ Connect(1)
  \/ \E u \in {<<97>>, <<98>>} : JoinUser(1, u)
  \/ Disconnect(1)
  \/ \E md \in PairData : SendMessage(1, md)
  \/ \E p \in pending : SendMessageOk(p)
  \/ \E p \in pending : SendMessageErr(p)
  \/ \E body \in OneWayBodies : PostMessage(<<97>>, body)
  \/ \E p \in pending : PostMessageOk(p)
  \/ \E p \in pending : PostMessageErr(p)
  \/ \E t \in NotifTypes, ti \in Titles, b \in Bodies :
       CreateNotification(<<98>>, t, ti, b)
  \/ \E p \in pending : CreateNotificationOk(p)
  \/ \E p \in pending : CreateNotificationErr(p)
  \/ \E pr \in PairQueries : GetConversation(pr[1], pr[2])
  \/ \E pr \in PairQueries : GetConversationErr(pr[1], pr[2])
  \/ \E p \in pending : ConversationMarked(p)
  \/ \E p \in pending : ConversationErr(p)
  \/ \E l \in Limits, o \in Offsets : GetNotifications(<<98>>, l, o)
  \/ GetNotificationsErr(<<98>>)
  \/ \E p \in pending : NotificationsCounted(p)
  \/ \E p \in pending : NotificationsCountErr(p)

SpecOffline == Init /\ [][NextOffline]_vars

\* ------------------------------------------------- missing field scenario
\* two sockets; user "a" writes to "b" over either path with payloads that
\* leave out sender, recipient or content; a socket may have emitted
\* 'join-user' without a user id
OptionalData ==
  [threadId : {ThreadId(<<97>>, <<98>>)}, sender : {<<97>>, Undefined},
   recipient : {<<98>>, Undefined}, content : Contents \cup {Undefined},
   type : {Undefined}]

OptionalBodies ==
  [recipient : {<<98>>, Undefined}, content : Contents \cup {Undefined},
   type : {Undefined}]

NextOptional ==
  \/ \E c \in {1, 2} : Connect(c)
  \/ \E c \in Conns, u \in {<<98>>, Undefined} : JoinUser(c, u)
  \/ \E c \in Conns : Disconnect(c)
  \/ \E c \in Conns, md \in OptionalData : SendMessage(c, md)
  \/ \E p \in pending : SendMessageOk(p)
  \/ \E p \in pending : SendMessageErr(p)
  \/ \E body \in OptionalBodies : PostMessage(<<97>>, body)
  \/ \E p \in pending : PostMessageOk(p)
  \/ \E p \in pending : PostMessageErr(p)

SpecOptional == Init /\ [][NextOptional]_vars

\* ------------------------------------------------------ no-payload scenario
\* two sockets of users "a" and "b"; chat and typing events arrive with a
\* payload or with none
AnyMessageData == OneWayData \cup {NoPayload}

AnyTypingData == OneWayTyping \cup {NoPayload}

NextAnyPayload ==
  \/ \E c \in {1, 2} : Connect(c)
  \/ \E c \in Conns, u \in {<<97>>, <<98>>} : JoinUser(c, u)
  \/ \E c \in Conns : Disconnect(c)
  \/ \E c \in Conns, md \in AnyMessageData : SendMessage(c, md)
  \/ \E p \in pending : SendMessageOk(p)
  \/ \E p \in pending : SendMessageErr(p)
  \/ \E c \in Conns, data \in AnyTypingData : TypingStart(c, data)
  \/ \E c \in Conns, data \in AnyTypingData : TypingStop(c, data)

SpecAnyPayload == InitOneWay /\ [][NextAnyPayload]_vars

\* ------------------------------------------------- NotificationBell (client)
MaxBell == 3       \* notifications the bell holds, and ids of those pushed

server == <<status, rooms, pending, messages, notifications, inbox,
            lastResponse, clock, budget, up, ghost>>

\* the stored notification with that id, owned by "b"
BellDoc(id, read) ==
  [id |-> id, userId |-> <<98>>, type |-> MatchAccepted, title |-> <<84>>,
   message |-> <<66>>, data |-> [type |-> MatchAccepted], read |-> read,
   createdAt |-> id]

\* payloads of the 'new-notification' events the bell receives
BellEvents == {NewNotification(BellDoc(id, FALSE)) : id \in 1..MaxBell}

\* data of the answers to the bell's GET /api/notifications: the k newest
\* first, of which the u newest are unread
BellAnswers ==
  {[notifications |->
      [j \in 1..k |-> BellDoc(k + 1 - j, j > u)],
    unreadCount |-> u] : k \in 0..MaxBell, u \in 0..MaxBell}

\* socketService.on('new-notification', ...)
BellOnNewNotification(notification) ==
  /\ Len(bellList) < MaxBell
  /\ bellList' = <<notification>> \o bellList
  /\ bellUnread' = bellUnread + 1
  /\ UNCHANGED <<server, chat, profile>>

\* fetchNotifications after the response has arrived
BellFetched(data) ==
  /\ bellList' = data.notifications
  /\ bellUnread' = data.unreadCount
  /\ UNCHANGED <<server, chat, profile>>

NextBell ==
  \/ \E e \in BellEvents : BellOnNewNotification(e)
  \/ \E data \in BellAnswers : BellFetched(data)

SpecBell == Init /\ [][NextBell]_vars

\* ------------------------------------------------------- ChatPage (client)
MaxChat == 2       \* messages the page holds, and ids of those pushed

\* data.sender of the 'user-typing' events the page receives; the typing
\* events of ChatPage itself carry no sender
TypingSenders == Users \cup {Undefined}

\* payloads of the 'user-typing' events the page receives
ChatTypingEvents ==
  {UserTyping(s, f) : s \in TypingSenders, f \in BOOLEAN}

\* payloads of the 'new-message' events the page receives
ChatMessageEvents ==
  {HttpNewMessage(PostMessageDoc(<<97>>, body, id)) :
     body \in OneWayBodies, id \in 1..MaxChat}

\* socketService.on('new-message', ...)
ChatOnNewMessage(message) ==
  /\ Len(chatMessages) < MaxChat
  /\ chatMessages' = Append(chatMessages, message)
  /\ UNCHANGED <<server, bellList, bellUnread, typingUsers, profile>>

\* socketService.on('user-typing', ...)
ChatOnUserTyping(data) ==
  /\ typingUsers' = IF data.isTyping
                    THEN typingUsers \cup {data.sender}
                    ELSE typingUsers \ {data.sender}
  /\ UNCHANGED <<server, bellList, bellUnread, chatMessages, profile>>

NextChat ==
  \/ \E m \in ChatMessageEvents : ChatOnNewMessage(m)
  \/ \E data \in ChatTypingEvents : ChatOnUserTyping(data)

SpecChat == Init /\ [][NextChat]_vars

\* the page goes on handling the events that arrive; which events arrive
\* is up to the other users
FairSpecChat == SpecChat /\ WF_vars(NextChat)

\* ------------------------------------------------------- ChatPage scenario
\* sockets 1 and 2 are the ChatPages of users "a" and "b": each does only
\* what ChatPage and SocketService do with a socket; the server notifies
\* both users
PageUser(c) == IF c = 1 THEN <<97>> ELSE <<98>>

\* the other user, whose conversation is the active one
PagePartner(c) == IF c = 1 THEN <<98>> ELSE <<97>>

\* useEffect: socketService.connect(user.id) opens the socket with the user
\* id in the handshake query, which the server's connection handler does
\* not read; nothing emits 'join-user'
ChatMount(c) == Connect(c)

\* handleTyping(true): emit('typing-start', { recipient: activeConversation })
ChatTypingStart(c) ==
  TypingStart(c, [recipient |-> PagePartner(c), sender |-> Undefined])

\* handleTyping(false)
ChatTypingStop(c) ==
  TypingStop(c, [recipient |-> PagePartner(c), sender |-> Undefined])

\* sendMessage: api.post('/messages', { recipient, content, type: 'text' })
ChatSendMessage(c) ==
  \E content \in Contents :
    PostMessage(PageUser(c), [recipient |-> PagePartner(c),
                              content |-> content, type |-> TextType])

\* what the pages and the server do while the pages stay open
ChatPageSteps ==
  \/ \E c \in {1, 2} : ChatMount(c)
  \/ \E c \in {1, 2} : ChatTypingStart(c)
  \/ \E c \in {1, 2} : ChatTypingStop(c)
  \/ \E c \in {1, 2} : ChatSendMessage(c)
  \/ \E p \in pending : PostMessageOk(p)
  \/ \E p \in pending : PostMessageErr(p)
  \/ \E c \in {1, 2}, t \in NotifTypes, ti \in Titles, b \in Bodies :
       CreateNotification(PageUser(c), t, ti, b)
  \/ \E p \in pending : CreateNotificationOk(p)
  \/ \E p \in pending : CreateNotificationErr(p)

NextChatPage ==
  \/ ChatPageSteps
  \/ \E c \in {1, 2} : Disconnect(c)

SpecChatPage == InitOneWay /\ [][NextChatPage]_vars

\* the sockets connect, the server completes its database calls and handles
\* every event emitted; a page may stay open for ever
FairSpecChatPage == SpecChatPage /\ WF_vars(ChatPageSteps)

\* ------------------------------------------ POST /api/users/:userId/reviews
MinRating == 1     \* rating: { type: Number, min: 1, max: 5 }
MaxRating == 5

\* an id whose account was deleted after its token was issued: "x"
Deleted == <<120>>

\* req.userId of the requests: the users and the deleted account
ReviewerIds == Users \cup {Deleted}

\* req.body.rating: the two ends of the valid range and the first beyond it
Ratings == {MinRating, MaxRating, MaxRating + 1}

\* the reviews of the collection, in order, that satisfy the filter
RECURSIVE FindReviews(_, _)
FindReviews(coll, userId) ==
  IF coll = <<>> THEN <<>>
  ELSE IF coll[1].userId = userId
       THEN <<coll[1]>> \o FindReviews(Tail(coll), userId)
       ELSE FindReviews(Tail(coll), userId)

\* Review.findOne({ userId, reviewerId }) finds a document
ExistingReview(userId, reviewerId) ==
  \E i \in DOMAIN reviews :
    reviews[i].userId = userId /\ reviews[i].reviewerId = reviewerId

\* reviews.reduce((sum, r) => sum + r.rating, 0)
RECURSIVE SumRatings(_)
SumRatings(found) ==
  IF found = <<>> THEN 0 ELSE found[1].rating + SumRatings(Tail(found))

\* sum / reviews.length, kept as the fraction
AverageRating(found) == [num |-> SumRatings(found), den |-> Len(found)]

\* the route up to `await Review.create(...)`: the self-review test, the
\* findOne and the findById with their early returns
SubmitReview(reviewerId, userId, r) ==
  /\ up
  /\ clock < budget
  /\ clock' = clock + 1
  /\ IF userId = reviewerId
       THEN /\ lastResponse' = [status |-> 400, route |-> "postReview"]
            /\ UNCHANGED pending
     ELSE IF ExistingReview(userId, reviewerId)
       THEN /\ lastResponse' = [status |-> 400, route |-> "postReview"]
            /\ UNCHANGED pending
     ELSE IF reviewerId \notin Users
       THEN /\ lastResponse' = [status |-> 404, route |-> "postReview"]
            /\ UNCHANGED pending
     ELSE /\ pending' = pending \cup
               {[kind |-> "review", origin |-> 0, stage |-> "create",
                 doc |-> [id |-> clock + 1, userId |-> userId,
                          reviewerId |-> reviewerId, rating |-> r],
                 average |-> Zero]}
          /\ UNCHANGED lastResponse
  /\ UNCHANGED <<status, rooms, messages, notifications, inbox, budget,
                 up, ghost, client, profile>>

\* Review.create resolved (the rating passes the schema): Review.find is next
ReviewCreated(p) ==
  /\ up
  /\ p \in pending /\ p.kind = "review" /\ p.stage = "create"
  /\ p.doc.rating \in MinRating..MaxRating
  /\ reviews' = Append(reviews, p.doc)
  /\ pending' = (pending \ {p}) \cup {[p EXCEPT !.stage = "find"]}
  /\ UNCHANGED <<status, rooms, messages, notifications, inbox, lastResponse,
                 clock, budget, up, ghost, client,
                 rating, files, avatar, verificationDocs, skills, matched>>

\* Review.find resolved: the average is computed, findByIdAndUpdate is next
ReviewsFound(p) ==
  /\ up
  /\ p \in pending /\ p.kind = "review" /\ p.stage = "find"
  /\ pending' = (pending \ {p}) \cup
       {[p EXCEPT !.stage = "update",
                  !.average = AverageRating(FindReviews(reviews, p.doc.userId))]}
  /\ UNCHANGED <<status, rooms, messages, notifications, inbox, lastResponse,
                 clock, budget, up, ghost, client, profile>>

\* User.findByIdAndUpdate resolved: the 200 response carries the review
RatingUpdated(p) ==
  /\ up
  /\ p \in pending /\ p.kind = "review" /\ p.stage = "update"
  /\ pending' = pending \ {p}
  /\ rating' = [rating EXCEPT ![p.doc.userId] = p.average]
  /\ lastResponse' = [status |-> 200, route |-> "postReview", data |-> p.doc]
  /\ UNCHANGED <<status, rooms, messages, notifications, inbox,
                 clock, budget, up, ghost, client,
                 reviews, files, avatar, verificationDocs, skills, matched>>

\* the database call in flight rejects: the catch answers 500
ReviewErr(p) ==
  /\ up
  /\ p \in pending /\ p.kind = "review"
  /\ pending' = pending \ {p}
  /\ lastResponse' = [status |-> 500, route |-> "postReview"]
  /\ UNCHANGED <<status, rooms, messages, notifications, inbox,
                 clock, budget, up, ghost, client, profile>>

\* users reviewed in the scenario: "a"
Reviewed == {<<97>>}

NextReviewOk ==
  \/ \E reviewerId \in ReviewerIds, userId \in Reviewed, r \in Ratings :
       SubmitReview(reviewerId, userId, r)
  \/ \E p \in pending : ReviewCreated(p)
  \/ \E p \in pending : ReviewsFound(p)
  \/ \E p \in pending : RatingUpdated(p)

\* every database call succeeds unless the schema rejects the document
SpecReviewOk == InitOneWay /\ [][NextReviewOk]_vars

NextReview ==
  \/ NextReviewOk
  \/ \E p \in pending : ReviewErr(p)

SpecReview == InitOneWay /\ [][NextReview]_vars

\* ------------------------------------------------- POST /api/users/upload
Slash == 47        \* code unit of '/'

\* 'http://localhost:5000/uploads/', abbreviated: "u/"
UploadsUrl == <<117, Slash>>

\* the name multer gives the n-th file stored: the digit of n
FileName(n) == <<48 + n>>

\* `http://localhost:5000/uploads/${req.file.filename}`
FileUrl(filename) == UploadsUrl \o filename

\* path.basename(p): what follows the last '/'
Basename(p) ==
  LET cuts == {i \in 1..Len(p) : p[i] = Slash}
      last == IF cuts = {} THEN 0
              ELSE CHOOSE i \in cuts : \A j \in cuts : j <= i
  IN SubSeq(p, last + 1, Len(p))

\* req.body.type: the two types the route knows, and anything else
UploadTypes == {"avatar", "verification", "other"}

\* multer has stored the file under a fresh name; User.findById is next
Upload(userId, type) ==
  /\ up
  /\ clock < budget
  /\ clock' = clock + 1
  /\ files' = files \cup {FileName(clock + 1)}
  /\ pending' = pending \cup
       {[kind |-> "upload", origin |-> 0, stage |-> "find", user |-> userId,
         type |-> type, file |-> FileName(clock + 1)]}
  /\ UNCHANGED <<status, rooms, messages, notifications, inbox, lastResponse,
                 budget, up, ghost, client,
                 reviews, rating, avatar, verificationDocs, skills, matched>>

\* multer rejects the upload (size, file filter) or the request carries no
\* file: 400, nothing is stored
UploadRejected ==
  /\ up
  /\ lastResponse' = [status |-> 400, route |-> "upload"]
  /\ UNCHANGED <<status, rooms, pending, messages, notifications, inbox,
                 clock, budget, up, ghost, client, profile>>

\* User.findById resolved: the route up to `await user.save()`
UploadFound(p) ==
  /\ up
  /\ p \in pending /\ p.kind = "upload" /\ p.stage = "find"
  /\ IF p.user \notin Users
       THEN /\ files' = files \ {p.file}
            /\ pending' = pending \ {p}
            /\ lastResponse' = [status |-> 404, route |-> "upload"]
     ELSE IF p.type = "avatar"
       THEN /\ files' = IF avatar[p.user] # NoFile
                          THEN files \ {Basename(avatar[p.user])}
                          ELSE files
            /\ pending' = (pending \ {p}) \cup {[p EXCEPT !.stage = "save"]}
            /\ UNCHANGED lastResponse
     ELSE IF p.type = "verification"
       THEN /\ pending' = (pending \ {p}) \cup {[p EXCEPT !.stage = "save"]}
            /\ UNCHANGED <<files, lastResponse>>
     ELSE /\ files' = files \ {p.file}
          /\ pending' = pending \ {p}
          /\ lastResponse' = [status |-> 400, route |-> "upload"]
  /\ UNCHANGED <<status, rooms, messages, notifications, inbox,
                 clock, budget, up, ghost, client,
                 reviews, rating, avatar, verificationDocs, skills, matched>>

\* user.save() resolved: the modified path is stored, the 200 response
UploadSaved(p) ==
  /\ up
  /\ p \in pending /\ p.kind = "upload" /\ p.stage = "save"
  /\ pending' = pending \ {p}
  /\ IF p.type = "avatar"
       THEN /\ avatar' = [avatar EXCEPT ![p.user] = FileUrl(p.file)]
            /\ UNCHANGED verificationDocs
       ELSE /\ verificationDocs' =
                 [verificationDocs EXCEPT
                    ![p.user] = Append(@, FileUrl(p.file))]
            /\ UNCHANGED avatar
  /\ lastResponse' = [status |-> 200, route |-> "upload",
                      data |-> [fileUrl |-> FileUrl(p.file)]]
  /\ UNCHANGED <<status, rooms, messages, notifications, inbox,
                 clock, budget, up, ghost, client,
                 reviews, rating, files, skills, matched>>

\* mutant: the catch answers 500 and leaves the uploaded file where it is
UploadErr_Keep(p) ==
  /\ up
  /\ p \in pending /\ p.kind = "upload"
  /\ pending' = pending \ {p}
  /\ lastResponse' = [status |-> 500, route |-> "upload"]
  /\ UNCHANGED <<status, rooms, messages, notifications, inbox,
                 clock, budget, up, ghost, client, profile>>

\* findById or save rejects: the catch removes the uploaded file, then 500
UploadErr(p) ==
  /\ up
  /\ p \in pending /\ p.kind = "upload"
  /\ pending' = pending \ {p}
  /\ files' = files \ {p.file}
  /\ lastResponse' = [status |-> 500, route |-> "upload"]
  /\ UNCHANGED <<status, rooms, messages, notifications, inbox,
                 clock, budget, up, ghost, client,
                 reviews, rating, avatar, verificationDocs, skills, matched>>

\* users "a" and "b" and the deleted account upload
Uploaders == {<<97>>, <<98>>, Deleted}

NextUpload ==
  \/ \E userId \in Uploaders, type \in UploadTypes : Upload(userId, type)
  \/ UploadRejected
  \/ \E p \in pending : UploadFound(p)
  \/ \E p \in pending : UploadSaved(p)
  \/ \E p \in pending : UploadErr(p)

SpecUpload == InitOneWay /\ [][NextUpload]_vars

\* ------------------------------------------------------- GET /api/messages
\* message.sender === userId ? message.recipient : message.sender
PartnerOf(message, userId) ==
  IF message.sender = userId THEN message.recipient ELSE message.sender

\* mutant: the messages are taken in the order in which they are stored
FindThreads_Unsorted(coll, userId) ==
  SelectSeq(coll, LAMBDA m : m.sender = userId \/ m.recipient = userId)

\* Message.find({ $or: [{ sender }, { recipient }] }).sort({ createdAt: -1 })
FindThreads(coll, userId) ==
  SortNewestFirst(
    SelectSeq(coll, LAMBDA m : m.sender = userId \/ m.recipient = userId))

\* conversations.has(partnerId)
HasPartner(conversations, partnerId) ==
  \E i \in DOMAIN conversations : conversations[i].partnerId = partnerId

\* the body of messages.forEach: the Map, in insertion order, after `message`
Grouped(conversations, message, userId) ==
  LET partnerId == PartnerOf(message, userId)
      set == IF HasPartner(conversations, partnerId) THEN conversations
             ELSE Append(conversations,
                         [partnerId |-> partnerId, lastMessage |-> message,
                          unreadCount |-> 0])
  IN IF message.recipient = userId /\ message.status # "read"
       THEN [i \in DOMAIN set |->
               IF set[i].partnerId = partnerId
                 THEN [set[i] EXCEPT !.unreadCount = @ + 1]
                 ELSE set[i]]
       ELSE set

\* messages.forEach(...); Array.from(conversations.values())
RECURSIVE GroupByPartner(_, _, _)
GroupByPartner(found, userId, conversations) ==
  IF found = <<>> THEN conversations
  ELSE GroupByPartner(Tail(found), userId,
                      Grouped(conversations, Head(found), userId))

\* the find resolves and the route answers with the conversations
GetConversations(userId) ==
  /\ up
  /\ lastResponse' =
       [status |-> 200, route |-> "getConversations",
        data |-> GroupByPartner(FindThreads(messages, userId), userId, <<>>)]
  /\ UNCHANGED <<status, rooms, pending, messages, notifications, inbox,
                 clock, budget, up, ghost, client, profile>>

\* the find rejects: the catch answers 500
GetConversationsErr(userId) ==
  /\ up
  /\ lastResponse' = [status |-> 500, route |-> "getConversations"]
  /\ UNCHANGED <<status, rooms, pending, messages, notifications, inbox,
                 clock, budget, up, ghost, client, profile>>

\* the messages posted in the scenario: "a" and "ab" write to "b", "b"
\* writes to "a" and to itself
ThreadPosts ==
  {<<<<97>>, <<98>>>>, <<<<97, 98>>, <<98>>>>, <<<<98>>, <<97>>>>,
   <<<<98>>, <<98>>>>}

\* "b" asks for its conversations, and for the ones with "a" and with itself
ThreadQueries == {<<<<98>>, <<97>>>>, <<<<98>>, <<98>>>>}

NextThreads ==
  \/ \E pr \in ThreadPosts, content \in Contents :
       PostMessage(pr[1], [recipient |-> pr[2], content |-> content,
                           type |-> TextType])
  \/ \E p \in pending : PostMessageOk(p)
  \/ \E p \in pending : PostMessageErr(p)
  \/ \E pr \in ThreadQueries : GetConversation(pr[1], pr[2])
  \/ \E p \in pending : ConversationMarked(p)
  \/ GetConversations(<<98>>)
  \/ GetConversationsErr(<<98>>)

SpecThreads == InitOneWay /\ [][NextThreads]_vars

\* ------------------------------------------------------------- findMatches
MaxOffered == 2    \* offeredSkills entries of a profile
MaxDesired == 1    \* desiredSkills entries of a profile

\* String.prototype.toLowerCase on the letters A-Z
toLowerCase(s) ==
  [i \in DOMAIN s |-> IF s[i] \in 65..90 THEN s[i] + 32 ELSE s[i]]

\* the outcomes of evaluating a test: true, false, or a TypeError thrown
\* (toLowerCase of undefined)
Yes == "true"
No == "false"
Threw == "TypeError"

\* user.offeredSkills.some(offeredSkill =>
\*   offeredSkill.skill.toLowerCase() === desiredSkill.toLowerCase()):
\* entries are tested in order up to the first that matches
RECURSIVE someOffered(_, _)
someOffered(offeredSkills, desiredSkill) ==
  IF offeredSkills = <<>> THEN No
  ELSE IF Head(offeredSkills) = Undefined THEN Threw
  ELSE IF toLowerCase(Head(offeredSkills)) = toLowerCase(desiredSkill)
    THEN Yes
  ELSE someOffered(Tail(offeredSkills), desiredSkill)

\* desiredSkills.some(desiredSkill => offeredSkills.some(...))
RECURSIVE someDesired(_, _)
someDesired(desiredSkills, offeredSkills) ==
  IF desiredSkills = <<>> THEN No
  ELSE LET first == someOffered(offeredSkills, Head(desiredSkills))
       IN IF first = No
            THEN someDesired(Tail(desiredSkills), offeredSkills)
            ELSE first

\* the filter callback: hasMatchingSkills || canTeachThem, both evaluated
keeps(currentUser, user) ==
  LET hasMatchingSkills ==
        someDesired(skills[currentUser].desired, skills[user].offered)
      canTeachThem ==
        someDesired(skills[user].desired, skills[currentUser].offered)
  IN IF hasMatchingSkills = Threw \/ canTeachThem = Threw THEN Threw
     ELSE IF hasMatchingSkills = Yes \/ canTeachThem = Yes THEN Yes
     ELSE No

\* allUsers.filter(...): the users kept, in order, unless a test threw
RECURSIVE findMatches(_, _)
findMatches(currentUser, allUsers) ==
  IF allUsers = <<>> THEN [threw |-> FALSE, users |-> <<>>]
  ELSE LET k == keeps(currentUser, Head(allUsers))
           rest == findMatches(currentUser, Tail(allUsers))
       IN IF k = Threw \/ rest.threw THEN [threw |-> TRUE, users |-> <<>>]
          ELSE IF k = Yes
            THEN [threw |-> FALSE, users |-> <<Head(allUsers)>> \o rest.users]
          ELSE rest

\* the users whose profiles vary: "a" and "b"
MatchUsers == {<<97>>, <<98>>}

\* the skill of an offeredSkills entry: "J", or none (POST
\* /api/users/skills/offered stores the entry whatever the body carries)
OfferedNames == {<<74>>, Undefined}

\* desiredSkills entries: "j" and "p"
DesiredNames == {<<106>>, <<112>>}

\* sequences over S of length at most n
SeqsUpTo(S, n) == UNION {[1..k -> S] : k \in 0..n}

\* desiredSkills holds no entry twice (the route tests includes(skill))
Profiles ==
  {[offered |-> o, desired |-> d] :
     o \in SeqsUpTo(OfferedNames, MaxOffered),
     d \in {x \in SeqsUpTo(DesiredNames, MaxDesired) :
              \A i, j \in DOMAIN x : x[i] = x[j] => i = j}}

\* the allUsers argument: one user, or both in either order
UserLists ==
  {<<u>> : u \in MatchUsers} \cup
  {pr \in MatchUsers \X MatchUsers : pr[1] # pr[2]}

InitMatch ==
  /\ status = [c \in Conns |-> "new"]
  /\ rooms = [c \in Conns |-> <<>>]
  /\ pending = {}
  /\ messages = <<>>
  /\ notifications = <<>>
  /\ inbox = [c \in Conns |-> <<>>]
  /\ lastResponse = [status |-> 0, route |-> "none"]
  /\ clock = 0
  /\ budget = MaxOps
  /\ InitProcess
  /\ skills \in {f \in [Users -> Profiles] :
                   \A u \in Users \ MatchUsers : f[u] = NoSkills[u]}

\* findMatches(currentUser, allUsers) is called on the stored profiles
FindMatches(currentUser, allUsers) ==
  /\ matched' =
       LET result == findMatches(currentUser, allUsers)
       IN [called |-> TRUE, currentUser |-> currentUser,
           allUsers |-> allUsers, threw |-> result.threw,
           result |-> result.users]
  /\ UNCHANGED <<status, rooms, pending, messages, notifications, inbox,
                 lastResponse, clock, budget, up, ghost, client,
                 reviews, rating, files, avatar, verificationDocs, skills>>

NextMatch ==
  \E currentUser \in MatchUsers, allUsers \in UserLists :
    FindMatches(currentUser, allUsers)

SpecMatch == InitMatch /\ [][NextMatch]_vars

\* ==================================================================
\* Properties
\* ==================================================================
\* events a step has added to the inbox of socket c
Added(c) == SubSeq(inbox'[c], Len(inbox[c]) + 1, Len(inbox'[c]))

\* number of events called name in evs
Count(evs, name) == Cardinality({i \in DOMAIN evs : evs[i].name = name})

\* number of events called name that carry the id, in evs (name is one of
\* the events that carry an id)
CountId(evs, name, id) ==
  Cardinality({i \in DOMAIN evs : evs[i].name = name /\ evs[i].id = id})

\* the stored record with the id, in collection coll
ById(coll, id) == coll[CHOOSE i \in DOMAIN coll : coll[i].id = id]

\* position of the record with the id in collection coll
PosOf(coll, id) == CHOOSE i \in DOMAIN coll : coll[i].id = id

\* k is the sorted pair of s and r joined with '-'
IsSortedJoin(k, s, r) ==
  \E x \in {s, r}, y \in {s, r} :
    /\ {x, y} = {s, r}
    /\ ~LexLess(y, x)
    /\ k = x \o <<Dash>> \o y

\* the step completes the database call p by inserting its document
Inserted(p) ==
  /\ pending' = pending \ {p}
  /\ \/ messages' = Append(messages, p.doc)
     \/ notifications' = Append(notifications, p.doc)

\* the step completes the database call p with nothing inserted
Rejected(p) ==
  /\ pending' = pending \ {p}
  /\ messages' = messages
  /\ notifications' = notifications

C2_OnlyRecipientReceives ==
  [][\A c \in Conns : \A i \in DOMAIN Added(c) :
      Added(c)[i].name = "new-message"
        => LET m == ById(messages', Added(c)[i].id)
           IN  ~( /\ rooms[c] # <<>>
                  /\ ~InRoom(c, m.sender)
                  /\ ~InRoom(c, m.recipient) )]_vars

\* ------------------------------------------------------------------ C3
\* C3: a socket that never issued 'join-user' is in no room and is pushed
\* no 'new-message', 'user-typing' or 'new-notification'.
C3_UnregisteredReceivesNothing ==
  [][\A c \in Conns :
      rooms[c] = <<>>
        => /\ Count(Added(c), "new-message") = 0
           /\ Count(Added(c), "user-typing") = 0
           /\ Count(Added(c), "new-notification") = 0]_vars

\* ------------------------------------------------------------------ C4
\* C4: every stored Message has threadId equal to the sorted pair of its
\* sender and recipient joined with '-'.
C4_ThreadIdIsSortedPair ==
  \A i \in DOMAIN messages :
    IsSortedJoin(messages[i].threadId, messages[i].sender,
                 messages[i].recipient)

\* ------------------------------------------------------------------ C5
\* C5: the thread key derived for (A, B) equals the one derived for (B, A):
\* for every pair of user ids, and for the key the POST route has derived
\* for the document it is inserting.
C5_ThreadKeySymmetric ==
  /\ \A a \in Users, b \in Users : ThreadId(a, b) = ThreadId(b, a)
  /\ \A p \in pending :
       p.kind = "post"
         => p.doc.threadId = ThreadId(p.doc.recipient, p.doc.sender)

\* C5 witness: the route has derived a key for a pair it had to reorder
C5_Witness ==
  \E p \in pending :
    /\ p.kind = "post"
    /\ LexLess(p.doc.recipient, p.doc.sender)
    /\ p.doc.threadId = p.doc.recipient \o <<Dash>> \o p.doc.sender

\* ------------------------------------------------------------------ C6
\* e is a 'new-message' pushed by the socket handler (its payload carries
\* no recipient)
IsSocketMessage(e) == e.name = "new-message" /\ "recipient" \notin DOMAIN e

\* C6 (as claimed): when one socket sends two messages to B, B's socket
\* receives the two 'new-message' pushes in the order in which they were
\* sent (ids are given in the order of sending), whatever the order in
\* which the two Message.create calls complete.
C6_SendOrderPreserved ==
  \A a \in Conns, b \in Conns : \A i \in DOMAIN inbox[b], j \in DOMAIN inbox[b] :
    ( /\ i < j
      /\ IsSocketMessage(inbox[b][i])
      /\ IsSocketMessage(inbox[b][j])
      /\ CountId(inbox[a], "message-sent", inbox[b][i].id) = 1
      /\ CountId(inbox[a], "message-sent", inbox[b][j].id) = 1 )
    => inbox[b][i].id < inbox[b][j].id

\* C6 (amended): a socket receives 'new-message' pushes in the order in
\* which their Message.create calls completed, that is the order of
\* insertion; so two messages of one sender arrive in the order sent
\* whenever their create calls complete in the order submitted.
C6_PersistOrderPreserved ==
  \A b \in Conns : \A i \in DOMAIN inbox[b], j \in DOMAIN inbox[b] :
    ( /\ i < j
      /\ inbox[b][i].name = "new-message"
      /\ inbox[b][j].name = "new-message" )
    => PosOf(messages, inbox[b][i].id) < PosOf(messages, inbox[b][j].id)

\* C6 witness: one socket was confirmed two messages and another socket
\* holds both, the later one first
C6_Witness ==
  \E a \in Conns, b \in Conns :
    /\ a # b
    /\ Len(inbox[b]) = 2
    /\ IsSocketMessage(inbox[b][1])
    /\ IsSocketMessage(inbox[b][2])
    /\ inbox[b][1].id > inbox[b][2].id
    /\ CountId(inbox[a], "message-sent", inbox[b][1].id) = 1
    /\ CountId(inbox[a], "message-sent", inbox[b][2].id) = 1

\* ------------------------------------------------------------------ C7
\* C7: when Message.create fails in the 'send-message' handler no socket is
\* pushed a 'new-message' or a 'message-sent' and the sending socket, while
\* connected, is sent one 'message-error'; when Notification.create fails
\* in createNotification no socket is pushed a 'new-notification'.
C7_FailureNotForwarded ==
  [][\A p \in pending :
      (p.kind \in {"send", "notify"} /\ Rejected(p))
      => /\ \A c \in Conns :
              /\ Count(Added(c), "new-message") = 0
              /\ Count(Added(c), "message-sent") = 0
              /\ Count(Added(c), "new-notification") = 0
         /\ (p.kind = "send" /\ status[p.origin] = "live")
              => Count(Added(p.origin), "message-error") = 1]_vars

\* C7 witness: the one message sent was rejected; its sender holds the
\* 'message-error', nothing is stored and no other socket holds anything
C7_Witness ==
  /\ clock = 1 /\ pending = {} /\ messages = <<>>
  /\ \E c \in Conns :
       /\ Count(inbox[c], "message-error") = 1
       /\ \E d \in Conns \ {c} : status[d] = "live" /\ rooms[d] # <<>>
       /\ \A d \in Conns \ {c} : inbox[d] = <<>>

\* ------------------------------------------------------------------ C8
\* C8: once a socket has disconnected nothing more is delivered to it,
\* whatever is dispatched to its user afterwards.
C8_NothingAfterDisconnect ==
  [][\A c \in Conns : status[c] = "closed" => inbox'[c] = inbox[c]]_vars

\* C8 witness: a socket received the first notification of its user and
\* disconnected; the second notification of that user was stored and
\* pushed without reaching it
C8_Witness ==
  \E c \in Conns :
    /\ status[c] = "closed"
    /\ Len(notifications) = 2
    /\ notifications[1].userId = notifications[2].userId
    /\ Len(inbox[c]) = 1
    /\ inbox[c][1].name = "new-notification"
    /\ inbox[c][1].id = notifications[1].id

\* ------------------------------------------------------------------ C9
\* C9: a socket belongs to one user at a time, the one of its latest
\* 'join-user': every notification and every socket chat message pushed to
\* it is addressed to that user, none to a user it joined before.
C9_LatestJoinOnly ==
  [][\A c \in Conns : \A i \in DOMAIN Added(c) :
      LET e == Added(c)[i]
          latest == rooms[c][Len(rooms[c])]
      IN  /\ e.name = "new-notification"
               => ById(notifications', e.id).userId = latest
          /\ IsSocketMessage(e)
               => ById(messages', e.id).recipient = latest]_vars

RecipientOf(p) == IF p.kind = "notify" THEN p.doc.userId ELSE p.doc.recipient

\* no socket is in the room of user u
Offline(u) == \A c \in Conns : ~InRoom(c, u)

\* how many notifications of the same user are newer than notifications[i]
Rank(i) ==
  Cardinality({k \in DOMAIN notifications :
                 /\ notifications[k].userId = notifications[i].userId
                 /\ notifications[k].createdAt > notifications[i].createdAt})

\* C11: when the insert of a chat message or notification completes while
\* no socket is in the recipient's room, the record is stored, nobody gets
\* 'message-error', the sending socket is acknowledged and POST answers
\* 200; the find of a later GET /api/messages/:partnerId returns every
\* stored message of the two users, the find of a later
\* GET /api/notifications returns every stored notification of the caller
\* that lies in the page asked for (all of them with the default query),
\* and a 200 answer carries what the find returned.
C11_OfflineRecordKept ==
  [][/\ \A p \in pending :
          ( /\ p.kind \in {"send", "post", "notify"}
            /\ Inserted(p)
            /\ Offline(RecipientOf(p)) )
          => /\ \A c \in Conns : Count(Added(c), "message-error") = 0
             /\ (p.kind = "send" /\ status[p.origin] = "live")
                  => CountId(Added(p.origin), "message-sent", p.doc.id) = 1
             /\ p.kind = "post"
                  => lastResponse' =
                       [status |-> 200, route |-> "postMessage",
                        data |-> p.doc]
     /\ \A q \in pending' \ pending :
          /\ q.kind = "conv"
               => \A i \in DOMAIN messages :
                    Between(messages[i], q.user, q.partner)
                      => \E j \in DOMAIN q.found : q.found[j] = messages[i]
          /\ q.kind = "list"
               => \A i \in DOMAIN notifications :
                    ( /\ notifications[i].userId = q.user
                      /\ Rank(i) >= q.offset
                      /\ Rank(i) < q.offset + q.limit )
                      => \E j \in DOMAIN q.found :
                           q.found[j] = notifications[i]
     /\ \A p \in pending \ pending' :
          /\ (p.kind = "conv" /\ lastResponse'.status = 200)
               => lastResponse'.data = p.found
          /\ (p.kind = "list" /\ lastResponse'.status = 200)
               => lastResponse'.data.notifications = p.found
    ]_vars

\* no socket ever connected, and the recipient "b" has read back a message
\* addressed to it
C11_Witness ==
  /\ \A c \in Conns : status[c] = "new"
  /\ lastResponse.route = "getConversation"
  /\ lastResponse.status = 200
  /\ \E j \in DOMAIN lastResponse.data :
       /\ lastResponse.data[j].recipient = <<98>>
       /\ \E i \in DOMAIN messages : messages[i].id = lastResponse.data[j].id

\* ------------------------------------------------------------------ C12
\* C12: no step takes the read flag of a stored notification from true back
\* to false: a notification that is read and is still stored after the step
\* is still read.
C12_ReadNeverReverts ==
  [][\A i \in DOMAIN notifications : \A j \in DOMAIN notifications' :
       (notifications[i].read /\ notifications'[j].id = notifications[i].id)
         => notifications'[j].read]_vars

\* a read notification was the target of another user's delete request and
\* is stored, read, after it
C12_Witness ==
  /\ lastWrite.route = "deleteNotification"
  /\ lastWrite.before # NoTarget
  /\ lastWrite.before.read
  /\ lastWrite.before.userId # lastWrite.userId
  /\ \E i \in DOMAIN notifications : notifications[i] = lastWrite.before

\* ------------------------------------------------------------------ C13
\* C13: PUT /api/notifications/:id/read by the owner of a notification that
\* is already read answers 200 with that notification and leaves the stored
\* notifications as they were.
C13_MarkReadIdempotent ==
  [][\A u \in Owners, id \in 1..budget :
       \A i \in DOMAIN notifications :
         ( /\ MarkRead(u, id)
           /\ notifications[i].id = id
           /\ notifications[i].userId = u
           /\ notifications[i].read )
         => /\ notifications' = notifications
            /\ lastResponse' = [status |-> 200, route |-> "markRead",
                                data |-> notifications[i]]]_vars

\* the last write was the owner's mark-read of a notification that was
\* already read, and it was answered 200
C13_Witness ==
  /\ lastWrite.route = "markRead"
  /\ lastWrite.before # NoTarget
  /\ lastWrite.before.read
  /\ lastWrite.before.userId = lastWrite.userId
  /\ lastResponse = [status |-> 200, route |-> "markRead",
                     data |-> lastWrite.before]

\* ------------------------------------------------------------------ C14
\* the user has a stored notification that is unread
HasUnread(coll, u) == \E i \in DOMAIN coll : coll[i].userId = u /\ ~coll[i].read

\* C14: PUT /api/notifications/read-all leaves the user with no unread
\* notification; from then on only the insertion of a new notification of
\* that user gives it an unread one; and a GET /api/notifications whose
\* count runs while the user has none reports unreadCount 0, whatever limit
\* and offset it was made with.
C14_ReadAllThenZero ==
  [][/\ \A u \in Owners : MarkAllRead(u) => ~HasUnread(notifications', u)
     /\ \A u \in Owners :
          (~HasUnread(notifications, u) /\ HasUnread(notifications', u))
            => \E p \in pending :
                 p.kind = "notify" /\ p.doc.userId = u /\ Inserted(p)
     /\ \A p \in pending :
          (NotificationsCounted(p) /\ ~HasUnread(notifications, p.user))
            => lastResponse'.data.unreadCount = 0
    ]_vars

\* the last write was the read-all of "b", and the last response is a
\* listing with a notification of "b" in it and unreadCount 0
C14_Witness ==
  /\ lastWrite = [route |-> "markAllRead", userId |-> <<98>>]
  /\ lastResponse.route = "getNotifications"
  /\ lastResponse.status = 200
  /\ lastResponse.data.unreadCount = 0
  /\ Len(lastResponse.data.notifications) > 0
  /\ \E i \in DOMAIN notifications : notifications[i].userId = <<98>>

\* ------------------------------------------------------------------ C15
\* C15: PUT /api/notifications/:id/read and DELETE /api/notifications/:id
\* with the id of a notification stored for another user answer 404 and
\* leave the stored notifications, that one included, as they were.
C15_ForeignIdNotFound ==
  [][\A u \in Owners, id \in 1..budget :
       ( /\ MarkRead(u, id) \/ DeleteNotification(u, id)
         /\ \E i \in DOMAIN notifications :
              notifications[i].id = id /\ notifications[i].userId # u )
       => /\ lastResponse'.status = 404
          /\ notifications' = notifications]_vars

\* the last write was a mark-read of an unread notification by a user who
\* does not own it: it was answered 404 and the notification is stored,
\* unread
C15_Witness ==
  /\ lastWrite.route = "markRead"
  /\ lastWrite.before # NoTarget
  /\ ~lastWrite.before.read
  /\ lastWrite.before.userId # lastWrite.userId
  /\ lastResponse = [status |-> 404, route |-> "markRead"]
  /\ \E i \in DOMAIN notifications : notifications[i] = lastWrite.before

\* ------------------------------------------------------------------ C16
\* the document lacks a field the claim calls required
LacksField(doc) ==
  doc.sender = Undefined \/ doc.recipient = Undefined \/ doc.content = Undefined

\* C16 (as claimed): a chat event that lacks sender, recipient or content
\* is rejected: its document is never inserted, the step that ends its
\* handling pushes no 'new-message', and the originator is told: the
\* sending socket, if still connected, gets 'message-error', the POST
\* caller gets no 200.
C16_MissingFieldRejected ==
  [][\A p \in pending :
       (p.kind \in {"send", "post"} /\ LacksField(p.doc)
          /\ pending' = pending \ {p})
       => /\ messages' = messages
          /\ \A c \in Conns : Count(Added(c), "new-message") = 0
          /\ (p.kind = "send" /\ status[p.origin] = "live")
               => Count(Added(p.origin), "message-error") = 1
          /\ p.kind = "post" => lastResponse'.status # 200]_vars

\* ------------------------------------------------------------------ C17
\* the user socket c is registered to: the one of its latest 'join-user'
Registered(c) == rooms[c][Len(rooms[c])]

\* d is a connection of the user that socket c belongs to
OfSameUser(c, d) ==
  \/ d = c
  \/ rooms[c] # <<>> /\ rooms[d] # <<>> /\ Registered(d) = Registered(c)

\* C17 (as claimed): a 'typing-start' or 'typing-stop' of socket c is pushed
\* only to sockets in the room of the recipient it names, and to no
\* connection of the sender, that is neither to c nor to another socket
\* registered to c's user.
C17_TypingNeverToSender ==
  [][\A c \in Conns, data \in TypingData :
       (TypingStart(c, data) \/ TypingStop(c, data))
       => \A d \in Conns :
            Count(Added(d), "user-typing") > 0
              => InRoom(d, data.recipient) /\ ~OfSameUser(c, d)]_vars

\* C17 (amended): a 'typing-start' or 'typing-stop' of socket c pushes one
\* 'user-typing', with the sender field of the payload and the flag of the
\* event, to every socket in the room of the named recipient except c
\* itself, and nothing to any other socket.
C17_TypingToRoomExceptSender ==
  [][\A c \in Conns, data \in TypingData :
       /\ TypingStart(c, data)
            => \A d \in Conns :
                 Added(d) = IF InRoom(d, data.recipient) /\ d # c
                            THEN <<UserTyping(data.sender, TRUE)>>
                            ELSE <<>>
       /\ TypingStop(c, data)
            => \A d \in Conns :
                 Added(d) = IF InRoom(d, data.recipient) /\ d # c
                            THEN <<UserTyping(data.sender, FALSE)>>
                            ELSE <<>>]_vars

\* a typing event has reached one socket while another socket, live and in
\* the same room, has received nothing: the one that sent it
C17_Witness ==
  \E c \in Conns, d \in Conns, u \in Users :
    /\ c # d
    /\ InRoom(c, u) /\ InRoom(d, u)
    /\ Count(inbox[d], "user-typing") = 1
    /\ inbox[c] = <<>>

\* ------------------------------------------------------------------ C18
\* C18: a stored message is never removed and never moves; a step changes
\* at most the status of stored messages, only from 'sent' to 'read', only
\* as the update of a GET /api/messages/:partnerId, and only for messages
\* sent by the partner to the caller; that update marks every such message.
C18_OnlyFetchMarksRead ==
  [][/\ Len(messages') >= Len(messages)
     /\ \A i \in DOMAIN messages :
          \/ messages'[i] = messages[i]
          \/ /\ messages[i].status = "sent"
             /\ messages'[i] = [messages[i] EXCEPT !.status = "read"]
             /\ \E p \in pending :
                  /\ p.kind = "conv"
                  /\ ConversationMarked(p)
                  /\ messages[i].sender = p.partner
                  /\ messages[i].recipient = p.user
     /\ \A p \in pending :
          (p.kind = "conv" /\ ConversationMarked(p))
            => /\ Len(messages') = Len(messages)
               /\ \A i \in DOMAIN messages :
                    (messages[i].sender = p.partner
                       /\ messages[i].recipient = p.user)
                      => messages'[i].status = "read"]_vars

\* "b" has fetched its conversation with "a": the answer carries a message
\* of "a" as it was found, still 'sent', and the stored copy is 'read'
C18_Witness ==
  /\ lastResponse.route = "getConversation"
  /\ lastResponse.status = 200
  /\ \E j \in DOMAIN lastResponse.data : \E i \in DOMAIN messages :
       /\ messages[i].id = lastResponse.data[j].id
       /\ lastResponse.data[j].status = "sent"
       /\ messages[i].status = "read"
       /\ messages[i].sender = <<97>>
       /\ messages[i].recipient = <<98>>

\* ------------------------------------------------------------------ C19
\* C19 (as claimed): whatever payload a 'send-message', 'typing-start' or
\* 'typing-stop' event of socket c carries, none included, the server keeps
\* running, every other socket stays connected and in its rooms, and the
\* database calls in flight stay in flight.
C19_EventFailureContained ==
  [][\A c \in Conns :
       ( \/ \E md \in AnyMessageData : SendMessage(c, md)
         \/ \E data \in AnyTypingData :
              TypingStart(c, data) \/ TypingStop(c, data) )
       => /\ up'
          /\ \A d \in Conns \ {c} :
               status'[d] = status[d] /\ rooms'[d] = rooms[d]
          /\ pending \subseteq pending']_vars

\* ------------------------------------------------------------------ C20
\* C20 (as claimed): when the bell receives 'new-notification' with an id
\* that its list already holds, the list and the unread count stay as they
\* are.
C20_BellIdempotentPerId ==
  [][\A e \in BellEvents :
       (BellOnNewNotification(e)
          /\ \E j \in DOMAIN bellList : bellList[j].id = e.id)
       => bellList' = bellList /\ bellUnread' = bellUnread]_vars

\* ------------------------------------------------------------------ C21
\* C21 (as claimed): once the page shows a sender as typing, it later stops
\* showing it, whether or not a 'user-typing' with isTyping false of that
\* sender arrives.
C21_TypingFlagClears ==
  \A s \in TypingSenders : (s \in typingUsers) ~> (s \notin typingUsers)

\* ------------------------------------------------------------------ C22
\* the user ids socket c has registered with 'join-user'
Identities(c) == {rooms[c][i] : i \in DOMAIN rooms[c]}

\* C22 (as claimed): the sender stored with a message and carried by the
\* 'new-message' and 'user-typing' events is the user that issued it: for
\* a socket event of a socket still connected, a user id that socket has
\* registered; for POST /api/messages, req.userId.
C22_SenderIsIssuer ==
  [][/\ \A p \in pending :
          (p.kind = "send" /\ Inserted(p) /\ status[p.origin] = "live")
            => /\ p.doc.sender \in Identities(p.origin)
               /\ \A d \in Conns : \A i \in DOMAIN Added(d) :
                    Added(d)[i].name = "new-message"
                      => Added(d)[i].sender \in Identities(p.origin)
     /\ \A u \in Users : \A body \in PostBodies(u) :
          PostMessage(u, body)
            => \A q \in pending' \ pending : q.doc.sender = u
     /\ \A c \in Conns, data \in TypingData :
          (TypingStart(c, data) \/ TypingStop(c, data))
            => \A d \in Conns : \A i \in DOMAIN Added(d) :
                 Added(d)[i].sender \in Identities(c)]_vars

\* ------------------------------------------------------------------ C23
\* C23 (as claimed): once the socket of a mounted ChatPage is connected, it
\* eventually is in the room of the page's user, unless the page is closed
\* before.
C23_PageJoinsOwnRoom ==
  \A c \in {1, 2} :
    (status[c] = "live") ~> (InRoom(c, PageUser(c)) \/ status[c] # "live")

\* ------------------------------------------------------------------ C24
\* C24 (as claimed): whenever the update of a GET /api/messages/:partnerId
\* turns a stored message from 'sent' to 'read', that message is among the
\* messages the same request found and returns to the caller, its recipient
\* (an earlier request that had returned it would have marked it already).
C24_ReadOnlyIfReturned ==
  [][\A p \in pending :
       (p.kind = "conv" /\ ConversationMarked(p))
         => \A i \in DOMAIN messages :
              (messages[i].status = "sent" /\ messages'[i].status = "read")
                => \E j \in DOMAIN p.found :
                     p.found[j].id = messages[i].id]_vars

\* ------------------------------------------------------------------ C25
\* C25 (as claimed): the Review collection never holds two reviews of the
\* same reviewed user by the same reviewer, and never a review whose
\* reviewer is the reviewed user.
C25_OneReviewPerPair ==
  /\ \A i, j \in DOMAIN reviews :
       (reviews[i].userId = reviews[j].userId
          /\ reviews[i].reviewerId = reviews[j].reviewerId) => i = j
  /\ \A i \in DOMAIN reviews : reviews[i].userId # reviews[i].reviewerId

\* ------------------------------------------------------------------ C26
\* C26 (as claimed): whenever no review submission is in flight and the
\* reviews stored are of different reviewers, the stored rating of a
\* reviewed user times the number of its reviews equals the sum of their
\* ratings.
C26_RatingIsAverage ==
  (/\ \A p \in pending : p.kind # "review"
   /\ \A i, j \in DOMAIN reviews :
        reviews[i].reviewerId = reviews[j].reviewerId => i = j)
    => \A u \in Reviewed :
         rating[u].num * Len(FindReviews(reviews, u))
           = SumRatings(FindReviews(reviews, u)) * rating[u].den

\* ------------------------------------------------------------------ C27
\* C27: a step that ends an upload request whose file multer has stored with
\* an error response (404 user not found, 400 invalid type, 500 from the
\* catch) leaves that file out of the uploads directory.
C27_FailedUploadRemovesFile ==
  [][\A p \in pending :
       (/\ p.kind = "upload"
        /\ UploadFound(p) \/ UploadSaved(p) \/ UploadErr(p)
        /\ \A q \in pending' : q.kind = "upload" => q.file # p.file
        /\ lastResponse'.status >= 400)
         => /\ p.file \in files
            /\ p.file \notin files']_vars

\* an upload whose save was in flight has just been answered 500 while
\* another upload's file is kept: only the failed one's file is gone
C27_Witness ==
  /\ lastResponse = [status |-> 500, route |-> "upload"]
  /\ clock = 2
  /\ Cardinality(files) = 1
  /\ pending = {}

\* ------------------------------------------------------------------ C28
\* C28 (as claimed): a stored avatar URL names a file that exists in the
\* uploads directory, whatever uploads have succeeded or failed.
C28_AvatarFileExists ==
  \A u \in Users : avatar[u] # NoFile => Basename(avatar[u]) \in files

\* ------------------------------------------------------------------ C29
\* C29: the answer of GET /api/messages for user u has exactly one entry for
\* each partner with which u has a stored message and no other entry; the
\* entry's unreadCount is the number of stored messages sent by the partner
\* to u whose status is not 'read'; its lastMessage is a stored message
\* between u and the partner than which none was created later.
C29_ConversationsSummarised ==
  [][\A u \in {<<98>>} :
       GetConversations(u) =>
         LET data == lastResponse'.data
             own == {k \in DOMAIN messages :
                       messages[k].sender = u \/ messages[k].recipient = u}
             partners == {PartnerOf(messages[k], u) : k \in own}
         IN /\ {data[i].partnerId : i \in DOMAIN data} = partners
            /\ Len(data) = Cardinality(partners)
            /\ \A i \in DOMAIN data :
                 /\ data[i].unreadCount =
                      Cardinality({k \in DOMAIN messages :
                                     /\ messages[k].sender = data[i].partnerId
                                     /\ messages[k].recipient = u
                                     /\ messages[k].status # "read"})
                 /\ \E k \in own :
                      /\ messages[k] = data[i].lastMessage
                      /\ Between(messages[k], u, data[i].partnerId)
                 /\ \A k \in own :
                      Between(messages[k], u, data[i].partnerId)
                        => messages[k].createdAt
                             <= data[i].lastMessage.createdAt]_vars

\* "b" was answered with its one conversation, the one with "a": it holds
\* two messages, stored newest first, shows the newest and counts both unread
C29_Witness ==
  /\ lastResponse.route = "getConversations"
  /\ lastResponse.status = 200
  /\ Len(messages) = 2
  /\ messages[1].createdAt > messages[2].createdAt
  /\ messages[1].sender = <<97>> /\ messages[2].sender = <<97>>
  /\ messages[1].recipient = <<98>> /\ messages[2].recipient = <<98>>
  /\ Len(lastResponse.data) = 1
  /\ lastResponse.data[1].lastMessage = messages[1]
  /\ lastResponse.data[1].unreadCount = 2

\* ------------------------------------------------------------------ C30
\* two skill names are equal up to the case of their letters
SameSkill(s, t) ==
  /\ s # Undefined /\ t # Undefined
  /\ Len(s) = Len(t)
  /\ \A i \in DOMAIN s :
       \/ s[i] = t[i]
       \/ s[i] \in 65..90 /\ t[i] = s[i] + 32
       \/ t[i] \in 65..90 /\ s[i] = t[i] + 32

\* a skill x desires is, case-insensitively, a skill y offers
Teaches(y, x) ==
  \E i \in DOMAIN skills[x].desired, j \in DOMAIN skills[y].offered :
    SameSkill(skills[x].desired[i], skills[y].offered[j])

\* u is among the users the call returned
Returned(result, u) ==
  ~result.threw /\ \E i \in DOMAIN result.users : result.users[i] = u

\* C30 (as claimed): after findMatches(A, [B]), B was returned exactly when
\* A would be returned by findMatches(B, [A]), and exactly when a skill one
\* of the two desires equals, case-insensitively, a skill the other offers.
C30_MatchSymmetricAndExact ==
  (matched.called /\ Len(matched.allUsers) = 1) =>
    LET A == matched.currentUser
        B == matched.allUsers[1]
        returned == Returned([threw |-> matched.threw,
                              users |-> matched.result], B)
    IN /\ returned <=> Returned(findMatches(B, <<A>>), A)
       /\ returned <=> (Teaches(B, A) \/ Teaches(A, B))

====
